---- MODULE Spec2Model ----
(***************************************************************************)
(* Model of the financial RAG chatbot: the orchestrator SimpleRAGChatbot   *)
(* (backend/app/api/rag_chatbot.py), the ingestion pipeline                *)
(* (backend/app/ingestion/pipeline.py) and the vector index gateway the    *)
(* orchestrator calls (app.storage.vector_store, modelled from spec.md     *)
(* section 4.3).                                                           *)
(*                                                                         *)
(* Strings are sequences of tokens.  A token is one character ("a", " ",   *)
(* "\n") or, inside a formatted label, one literal fragment of the format  *)
(* string.  len() of a chunk text is the length of its sequence.           *)
(*                                                                         *)
(* Spec is the orchestrator handling uploads, chat requests and reads;     *)
(* ChunkSpec is PDFProcessor.chunk_text on its own, under every chunk size *)
(* and overlap, with the text splitter of the langchain library modelled   *)
(* after the library's algorithm; ApiSpec is the HTTP endpoints of         *)
(* backend/uvicorn_app.py, with a batch upload that is suspended at every  *)
(* file it reads while other requests are served.                          *)
(***************************************************************************)
EXTENDS Integers, Sequences, FiniteSets, TLC

VARIABLES
    document_store,   \* SimpleRAGChatbot.document_store: document id -> metadata
    index,            \* the vector index: sequence of stored chunk records
    upload_dir,       \* files written under settings.upload_directory
    next_id,          \* the next fresh identifier uuid.uuid4() hands out
    op,               \* the handler that ran last, "idle" once its response is delivered
    request,          \* its arguments
    env,              \* what the collaborators did during it
    calls,            \* the collaborator calls it made, in order
    search_results,   \* what search_similar_chunks returned to it
    context_text,     \* the context string assembled during it
    outcome,          \* how it ended: [kind |-> "return", value |-> ...] or
                      \*               [kind |-> "raise",  value |-> ...]
    batch             \* the upload_multiple_files coroutine in flight: its
                      \* position, the files left, its responses and errors

vars == << document_store, index, upload_dir, next_id, op, request, env,
           calls, search_results, context_text, outcome, batch >>

-----------------------------------------------------------------------------
(* Bounds of the model *)

\* uploads handled in one process lifetime
MaxDocs == 2

\* the longest text handed to the chunker on its own
MaxTextLen == 5

\* the largest chunk size the chunker is configured with
MaxChunkSize == 3

-----------------------------------------------------------------------------
(* Program constants *)

\* settings.rag_top_k_results
rag_top_k_results == 5

\* settings.max_chunk_size
max_chunk_size == 1000

\* search_results[:3] in _prepare_context_from_search_results
ContextTopN == 3

\* result['content'][:200] in _prepare_sources
SourcePreviewLen == 200

\* request.document_id is None
None == 0

\* document_id="" in the error response of upload_document
EmptyId == -1

-----------------------------------------------------------------------------
(* Strings *)

Whitespace == {" ", "\t", "\n"}

Min(a, b) == IF a <= b THEN a ELSE b

\* n copies of the character c
Rep(c, n) == [i \in 1..n |-> c]

\* s[:n] for n >= 0
Prefix(s, n) == SubSeq(s, 1, Min(n, Len(s)))

RECURSIVE LStrip(_)
LStrip(s) ==
    IF s # << >> /\ Head(s) \in Whitespace THEN LStrip(Tail(s)) ELSE s

RECURSIVE RStrip(_)
RStrip(s) ==
    IF s # << >> /\ s[Len(s)] \in Whitespace
    THEN RStrip(SubSeq(s, 1, Len(s) - 1))
    ELSE s

\* str.strip()
Strip(s) == RStrip(LStrip(s))

\* sep.join(parts)
RECURSIVE Join(_, _)
Join(parts, sep) ==
    IF parts = << >> THEN << >>
    ELSE IF Len(parts) = 1 THEN parts[1]
    ELSE parts[1] \o sep \o Join(Tail(parts), sep)

\* the calls a handler made, before those its continuation r made
PrependCalls(made, r) == [r EXCEPT !.calls = made \o r.calls]

\* dict.get(key, default)
Get(d, key, default) == IF key \in DOMAIN d THEN d[key] ELSE default

-----------------------------------------------------------------------------
(* Vector index gateway (app.storage.vector_store), spec.md section 4.3 *)

\* relevance scores the embedding comparison can give (higher = more similar)
Scores == {1, 2}

\* addChunks: persist each chunk tagged with the document id and the metadata;
\* a provider failure is absorbed at the gateway and nothing is written
add_document_chunks(idx, document_id, chunks, metadata, provider) ==
    IF provider = "down" THEN idx
    ELSE idx \o [i \in 1..Len(chunks) |->
                    [document_id |-> document_id,
                     ordinal     |-> i,
                     content     |-> chunks[i],
                     metadata    |-> metadata]]

\* positions of idx in the search space: all of them, or those of one document
Candidates(idx, document_id) ==
    { i \in 1..Len(idx) : document_id = None \/ idx[i].document_id = document_id }

\* the candidate that ranks first: highest score, the earliest stored on a tie
Best(c, score) ==
    CHOOSE i \in c : \A j \in c : score[j] < score[i] \/ (score[j] = score[i] /\ i <= j)

\* candidates by descending relevance score
RECURSIVE Ranked(_, _)
Ranked(c, score) ==
    IF c = {} THEN << >>
    ELSE LET b == Best(c, score) IN << b >> \o Ranked(c \ {b}, score)

SearchResult(chunk, s) ==
    [content         |-> chunk.content,
     relevance_score |-> s,
     metadata        |-> [filename    |-> chunk.metadata.filename,
                          file_type   |-> chunk.metadata.file_type,
                          document_id |-> chunk.document_id]]

\* the results for the ranked positions r of idx
SearchResults(idx, score, r) ==
    [k \in 1..Len(r) |-> SearchResult(idx[r[k]], score[r[k]])]

\* search: up to top_k chunks by descending relevance, the search space
\* restricted to document_id when one is given; an unreachable provider gives
\* the empty sequence, never an error
search_similar_chunks(idx, query, top_k, document_id, provider, score) ==
    IF provider = "down" THEN << >>
    ELSE SearchResults(idx, score,
                       Prefix(Ranked(Candidates(idx, document_id), score), top_k))

\* getChunksForDocument
get_document_chunks(idx, document_id, provider) ==
    IF provider = "down" THEN << >>
    ELSE SelectSeq(idx, LAMBDA c : c.document_id = document_id)

-----------------------------------------------------------------------------
(* SimpleRAGChatbot: the query path *)

PromptingMessage ==
    << "Please provide a question about your uploaded documents." >>

NoInformationMessage ==
    << "I couldn't find relevant information in the uploaded documents to answer your question. Please make sure you have uploaded PDF documents first." >>

ErrorMessage ==
    << "I encountered an error while processing your request. Please try again." >>

ApologyMessage ==
    << "I encountered an error while generating a response. Please try again." >>

ContextHeader == << "=== RELEVANT DOCUMENT CONTENT ===" >>

Ellipsis == << ".", ".", "." >>

\* what the chat completion holds when the provider answers
CompletionText == << " ", "answer", "\n" >>

ChatResponse(response, sources, metadata) ==
    [response |-> response, sources |-> sources, metadata |-> metadata]

\* faulty variant of ContextSlice: the last three results
ContextSliceTail(results) ==
    SubSeq(results, Len(results) - Min(ContextTopN, Len(results)) + 1,
           Len(results))

\* the results _prepare_context_from_search_results iterates over
ContextSlice(results) == Prefix(results, ContextTopN)

\* faulty variant of SourceLabel: numbered from the enumerate() index itself
SourceLabelFromZero(i0, filename) ==
    << "Source ", ToString(i0), " (from " >> \o filename \o << "):" >>

\* f"Source {i+1} (from {filename}):" for the enumerate() index i0
SourceLabel(i0, filename) ==
    << "Source ", ToString(i0 + 1), " (from " >> \o filename \o << "):" >>

\* the three context_parts one result appends
ContextParts(i0, result) ==
    << SourceLabel(i0, Get(Get(result, "metadata", << >>), "filename", << "Unknown" >>)),
       Get(result, "content", << >>),
       << >> >>

RECURSIVE AllContextParts(_, _)
AllContextParts(i0, results) ==
    IF results = << >> THEN << >>
    ELSE ContextParts(i0, Head(results)) \o AllContextParts(i0 + 1, Tail(results))

prepare_context_from_search_results(results) ==
    IF results = << >> THEN << >>
    ELSE Join(<< ContextHeader >> \o AllContextParts(0, ContextSlice(results)),
              << "\n" >>)

\* faulty variant of SourceContent: a text of exactly 200 characters gets
\* the ellipsis too
SourceContentOffByOne(content) ==
    IF Len(content) >= SourcePreviewLen
    THEN Prefix(content, SourcePreviewLen) \o Ellipsis
    ELSE content

\* the "content" of one source
SourceContent(content) ==
    IF Len(content) > SourcePreviewLen
    THEN Prefix(content, SourcePreviewLen) \o Ellipsis
    ELSE content

Source(result) ==
    [content         |-> SourceContent(Get(result, "content", << >>)),
     metadata        |-> Get(result, "metadata", << >>),
     relevance_score |-> Get(result, "relevance_score", 0),
     document_type   |-> Get(Get(result, "metadata", << >>), "file_type", "unknown")]

\* faulty variant of SourcesOf: only the results used for the context
SourcesOfContextOnly(results) == Prefix(results, ContextTopN)

\* the results _prepare_sources iterates over
SourcesOf(results) == results

Sources(results) == [k \in 1..Len(results) |-> Source(results[k])]

prepare_sources(results) == Sources(SourcesOf(results))

\* the try block of _generate_response: the call of the completion provider
GenerateTry(query, context, llm) ==
    IF llm = "fail"
    THEN [kind |-> "raise", value |-> "APIError"]
    ELSE [kind |-> "return", value |-> Strip(CompletionText)]

\* faulty variant of GenerateCaught: the provider failure propagates
GenerateUncaught(b) == b

\* the except clause of _generate_response
GenerateCaught(b) ==
    IF b.kind = "raise" THEN [kind |-> "return", value |-> ApologyMessage] ELSE b

generate_response(query, context, llm) ==
    GenerateCaught(GenerateTry(query, context, llm))

\* what a chat request that has not reached a collaborator records for it
NotCalled == "not called"

\* faulty variant of Query: the message is not stripped
QueryUnstripped(req) == req.message

\* query = request.message.strip()
Query(req) == Strip(req.message)

\* faulty variant of NoResults: the zero-results branch is never taken
NoResultsNever(found) == FALSE

\* "if not search_results"
NoResults(found) == found = << >>

\* faulty variant of SearchScope: the search is never scoped
SearchScopeAll(req) == None

\* the document scope process_chat_message hands to the search
SearchScope(req) == req.document_id

\* process_chat_message from "response = self._generate_response(...)" on:
\* response is what _generate_response returned or raised
ChatGenerated(req, found, context, response, lookup, provider, llm) ==
    [kind |-> response.kind,
     value |-> IF response.kind = "raise" THEN response.value
               ELSE ChatResponse(response.value, prepare_sources(found),
                                 [context_chunks_found |-> Len(found),
                                  document_id |-> req.document_id,
                                  query_type |-> "rag"]),
     calls |-> << "get_vector_store", "search_similar_chunks",
                  "chat.completions.create" >>,
     results |-> found, context |-> context,
     env |-> [lookup |-> lookup, provider |-> provider, llm |-> llm]]

\* faulty variant of ChatAssembled: a failed completion is tried a second time
ChatAssembledRetrying(req, found, context, lookup, provider, llm) ==
    [ChatGenerated(req, found, context, generate_response(Query(req), context, llm),
                   lookup, provider, llm)
        EXCEPT !.calls = IF llm = "fail"
                         THEN @ \o << "chat.completions.create" >> ELSE @]

\* process_chat_message once the context is assembled
ChatAssembled(req, found, context, lookup, provider, llm) ==
    ChatGenerated(req, found, context, generate_response(Query(req), context, llm),
                  lookup, provider, llm)

\* process_chat_message once the search has returned found
ChatSearched(req, found, lookup, provider, llm) ==
    IF NoResults(found)
    THEN [kind |-> "return",
          value |-> ChatResponse(NoInformationMessage, << >>,
                                 [context_chunks_found |-> 0]),
          calls |-> << "get_vector_store", "search_similar_chunks" >>,
          results |-> found, context |-> << >>,
          env |-> [lookup |-> lookup, provider |-> provider, llm |-> NotCalled]]
    ELSE ChatAssembled(req, found, prepare_context_from_search_results(found),
                       lookup, provider, llm)

\* the try block of process_chat_message.  lookup, provider and llm say what
\* get_vector_store(), the index provider and the completion provider do when
\* they are called; score is the relevance the index gives each stored chunk.
ChatTry(req, idx, lookup, provider, score, llm) ==
    IF Query(req) = << >>
    THEN [kind |-> "return",
          value |-> ChatResponse(PromptingMessage, << >>, [error |-> "Empty message"]),
          calls |-> << >>, results |-> << >>, context |-> << >>,
          env |-> [lookup |-> NotCalled, provider |-> NotCalled, llm |-> NotCalled]]
    ELSE IF lookup = "raise"
    THEN [kind |-> "raise", value |-> "get_vector_store failed",
          calls |-> << "get_vector_store" >>, results |-> << >>, context |-> << >>,
          env |-> [lookup |-> lookup, provider |-> NotCalled, llm |-> NotCalled]]
    ELSE ChatSearched(req,
                      search_similar_chunks(idx, Query(req), rag_top_k_results,
                                            SearchScope(req), provider, score),
                      lookup, provider, llm)

\* faulty variant of ChatCaught: what the try block raised propagates
ChatUncaught(b) == b

\* the except clause of process_chat_message: whatever the try block raised
\* becomes the error response
ChatCaught(b) ==
    IF b.kind = "raise"
    THEN [b EXCEPT !.kind = "return",
                   !.value = ChatResponse(ErrorMessage, << >>, [error |-> b.value])]
    ELSE b

process_chat_message(req, idx, lookup, provider, score, llm) ==
    ChatCaught(ChatTry(req, idx, lookup, provider, score, llm))

-----------------------------------------------------------------------------
(* Ingestion pipeline (backend/app/ingestion/pipeline.py) *)

Lower(c) ==
    CASE c = "P" -> "p" [] c = "D" -> "d" [] c = "F" -> "f" [] OTHER -> c

\* the position of the last "." in name, 0 when there is none
RECURSIVE LastDot(_, _)
LastDot(name, i) ==
    IF i = 0 THEN 0 ELSE IF name[i] = "." THEN i ELSE LastDot(name, i - 1)

\* Path(filename).suffix
Suffix(name) ==
    LET i == LastDot(name, Len(name))
    IN  IF 1 < i /\ i < Len(name) THEN SubSeq(name, i, Len(name)) ELSE << >>

\* faulty variant of get_file_type: every filename is taken for a PDF
get_file_typeAny(filename) == [kind |-> "return", value |-> "pdf"]

\* DocumentIngestionPipeline.get_file_type
get_file_type(filename) ==
    LET ext == [i \in 1..Len(Suffix(filename)) |-> Lower(Suffix(filename)[i])]
    IN  IF ext = << ".", "p", "d", "f" >>
        THEN [kind |-> "return", value |-> "pdf"]
        ELSE [kind |-> "raise", value |-> "Unsupported file type"]

\* text += page.extract_text() + "\n" over the pages
RECURSIVE PagesText(_)
PagesText(pages) ==
    IF pages = << >> THEN << >>
    ELSE Head(pages) \o << "\n" >> \o PagesText(Tail(pages))

\* faulty variant of extract_text: a read error is swallowed and the text
\* read so far, none, is returned
extract_textSilent(file_content) ==
    [kind |-> "return",
     value |-> IF file_content.readable THEN Strip(PagesText(file_content.pages))
               ELSE << >>]

\* PDFProcessor.extract_text
extract_text(file_content) ==
    IF ~file_content.readable
    THEN [kind |-> "raise", value |-> "PdfReadError"]
    ELSE [kind |-> "return", value |-> Strip(PagesText(file_content.pages))]

\* len(text.split()): the number of places where a word starts
WordCount(text) ==
    Cardinality({ i \in 1..Len(text) :
                    /\ text[i] \notin Whitespace
                    /\ (i = 1 \/ text[i - 1] \in Whitespace) })

-----------------------------------------------------------------------------
(* The chunker: RecursiveCharacterTextSplitter(chunk_size, chunk_overlap,
   length_function=len, separators=["\n\n", "\n", " ", ""]) as split_text
   runs it, with the library defaults keep_separator=True and
   strip_whitespace=True.  A piece of the text is the span << a, b >> of its
   first and last position. *)

\* faulty variant of Separators: the list ends at the space, so that a run
\* without whitespace is never cut
SeparatorsWithoutEmpty == << << "\n", "\n" >>, << "\n" >>, << " " >> >>

\* separators=["\n\n", "\n", " ", ""]
Separators == << << "\n", "\n" >>, << "\n" >>, << " " >>, << >> >>

SpanLen(span) == span[2] - span[1] + 1

\* re.split: where sep matches in text[a..b], left to right, no overlaps
RECURSIVE Matches(_, _, _, _)
Matches(text, a, b, sep) ==
    IF a + Len(sep) - 1 > b THEN << >>
    ELSE IF SubSeq(text, a, a + Len(sep) - 1) = sep
    THEN << a >> \o Matches(text, a + Len(sep), b, sep)
    ELSE Matches(text, a + 1, b, sep)

\* the pieces that start at starts and together end at b
PiecesFrom(starts, b) ==
    [k \in 1..Len(starts) |->
        << starts[k], IF k < Len(starts) THEN starts[k + 1] - 1 ELSE b >>]

\* _split_text_with_regex with keep_separator: the piece before the first
\* match, then every separator with the piece that follows it, the empty
\* pieces dropped; the single characters for the separator ""
split_text_with_regex(text, a, b, sep) ==
    IF a > b THEN << >>
    ELSE IF sep = << >> THEN [k \in 1..(b - a + 1) |-> << a + k - 1, a + k - 1 >>]
    ELSE IF Matches(text, a, b, sep) # << >> /\ Head(Matches(text, a, b, sep)) = a
    THEN PiecesFrom(Matches(text, a, b, sep), b)
    ELSE PiecesFrom(<< a >> \o Matches(text, a, b, sep), b)

\* text[a..b].strip() as a span, none when nothing is left
RECURSIVE StripSpan(_, _, _)
StripSpan(text, a, b) ==
    IF a > b THEN << >>
    ELSE IF text[a] \in Whitespace THEN StripSpan(text, a + 1, b)
    ELSE IF text[b] \in Whitespace THEN StripSpan(text, a, b - 1)
    ELSE << << a, b >> >>

\* _join_docs of the pieces lo..hi with the separator "": their text
\* stripped, None (no chunk) when it is empty
join_docs(text, splits, lo, hi) == StripSpan(text, splits[lo][1], splits[hi][2])

\* the while loop of _merge_splits: pieces are popped off the front of
\* current_doc (which starts at piece lo and holds total characters) until it
\* is no longer than the overlap and has room for a piece of length n
RECURSIVE PopFront(_, _, _, _, _, _)
PopFront(splits, lo, total, n, chunk_size, overlap) ==
    IF total > overlap \/ (total + n > chunk_size /\ total > 0)
    THEN PopFront(splits, lo + 1, total - SpanLen(splits[lo]), n, chunk_size, overlap)
    ELSE << lo, total >>

\* the for loop of _merge_splits from piece k on, current_doc being the
\* pieces lo..k-1 of total characters
RECURSIVE MergeFrom(_, _, _, _, _, _, _)
MergeFrom(text, splits, k, lo, total, chunk_size, overlap) ==
    IF k > Len(splits)
    THEN IF lo < k THEN join_docs(text, splits, lo, k - 1) ELSE << >>
    ELSE IF total + SpanLen(splits[k]) > chunk_size /\ lo < k
    THEN join_docs(text, splits, lo, k - 1)
         \o MergeFrom(text, splits, k + 1,
                      PopFront(splits, lo, total, SpanLen(splits[k]),
                               chunk_size, overlap)[1],
                      PopFront(splits, lo, total, SpanLen(splits[k]),
                               chunk_size, overlap)[2] + SpanLen(splits[k]),
                      chunk_size, overlap)
    ELSE MergeFrom(text, splits, k + 1, lo, total + SpanLen(splits[k]),
                   chunk_size, overlap)

\* TextSplitter._merge_splits
merge_splits(text, splits, chunk_size, overlap) ==
    MergeFrom(text, splits, 1, 1, 0, chunk_size, overlap)

\* the separator _split_text works with, and the ones it recurses with: the
\* first of seps[i..] that is "" or occurs in text[a..b]
RECURSIVE PickSeparator(_, _, _, _, _)
PickSeparator(text, a, b, seps, i) ==
    IF i > Len(seps)
    THEN [separator |-> seps[Len(seps)], new_separators |-> << >>]
    ELSE IF seps[i] = << >>
    THEN [separator |-> << >>, new_separators |-> << >>]
    ELSE IF Matches(text, a, b, seps[i]) # << >>
    THEN [separator |-> seps[i], new_separators |-> SubSeq(seps, i + 1, Len(seps))]
    ELSE PickSeparator(text, a, b, seps, i + 1)

\* _merge_splits(_good_splits), _good_splits being the pieces g..k-1
MergeGood(text, splits, g, k, chunk_size, overlap) ==
    IF g < k THEN merge_splits(text, SubSeq(splits, g, k - 1), chunk_size, overlap)
    ELSE << >>

\* RecursiveCharacterTextSplitter._split_text on text[a..b]; SplitLoop is its
\* for loop from piece k on, _good_splits being the pieces g..k-1
RECURSIVE SplitText(_, _, _, _, _, _), SplitLoop(_, _, _, _, _, _, _)
SplitLoop(text, splits, k, g, new_separators, chunk_size, overlap) ==
    IF k > Len(splits)
    THEN MergeGood(text, splits, g, k, chunk_size, overlap)
    ELSE IF SpanLen(splits[k]) < chunk_size
    THEN SplitLoop(text, splits, k + 1, g, new_separators, chunk_size, overlap)
    ELSE MergeGood(text, splits, g, k, chunk_size, overlap)
         \o (IF new_separators = << >> THEN << splits[k] >>
             ELSE SplitText(text, splits[k][1], splits[k][2], new_separators,
                            chunk_size, overlap))
         \o SplitLoop(text, splits, k + 1, k + 1, new_separators, chunk_size, overlap)

SplitText(text, a, b, seps, chunk_size, overlap) ==
    SplitLoop(text,
              split_text_with_regex(text, a, b,
                                    PickSeparator(text, a, b, seps, 1).separator),
              1, 1, PickSeparator(text, a, b, seps, 1).new_separators,
              chunk_size, overlap)

\* split_text(text): where in the text each chunk lies
split_text(text, chunk_size, overlap) ==
    SplitText(text, 1, Len(text), Separators, chunk_size, overlap)

\* faulty variant of FixedWindows: the stride is C + O
FixedWindowsGapped(text, chunk_size, overlap) ==
    [k \in 1..((Len(text) + chunk_size + overlap - 1) \div (chunk_size + overlap)) |->
        << (k - 1) * (chunk_size + overlap) + 1,
           Min((k - 1) * (chunk_size + overlap) + chunk_size, Len(text)) >>]

\* faulty variant of FixedWindows: the stride is C, the overlap is forgotten
FixedWindowsStrideC(text, chunk_size, overlap) ==
    [k \in 1..((Len(text) + chunk_size - 1) \div chunk_size) |->
        << (k - 1) * chunk_size + 1,
           Min((k - 1) * chunk_size + chunk_size, Len(text)) >>]

\* faulty variant of FixedWindows: range(0, len(text) + 1, C - O)
FixedWindowsInclusive(text, chunk_size, overlap) ==
    [k \in 1..((Len(text) \div (chunk_size - overlap)) + 1) |->
        << (k - 1) * (chunk_size - overlap) + 1,
           Min((k - 1) * (chunk_size - overlap) + chunk_size, Len(text)) >>]

\* the fallback of chunk_text:
\* [text[i:i+C] for i in range(0, len(text), C - O)], as spans
FixedWindows(text, chunk_size, overlap) ==
    [k \in 1..((Len(text) + chunk_size - overlap - 1) \div (chunk_size - overlap)) |->
        << (k - 1) * (chunk_size - overlap) + 1,
           Min((k - 1) * (chunk_size - overlap) + chunk_size, Len(text)) >>]

\* where the chunks of chunk_text lie in the text: those of the splitter, or
\* the fixed windows when the splitter raises
ChunkSpans(text, chunk_size, overlap, splitter) ==
    IF splitter = "fail" THEN FixedWindows(text, chunk_size, overlap)
    ELSE split_text(text, chunk_size, overlap)

\* the chunk strings of the spans
ChunksAt(text, spans) ==
    [k \in 1..Len(spans) |-> SubSeq(text, spans[k][1], spans[k][2])]

\* PDFProcessor.chunk_text for a text of at most max_chunk_size characters
\* (the only texts the uploads below carry): the splitter merges all its
\* pieces back into one stripped chunk, and drops a chunk that is empty
\* (ShortTextIsOneStrippedChunk compares it with split_text)
chunk_text(text) ==
    IF Strip(text) = << >> THEN << >> ELSE << Strip(text) >>

\* faulty variant of save_file: the upload is written under a fixed name
save_fileFixedName(document_id, filename) == << None, Suffix(filename) >>

\* DocumentIngestionPipeline.save_file: the path the upload is written to
save_file(document_id, filename) == << document_id, Suffix(filename) >>

\* PDFProcessor.process: the metadata built from the text and its chunks
ProcessMetadata(text, chunks) ==
    [total_chunks     |-> Len(chunks),
     total_characters |-> Len(text),
     total_words      |-> WordCount(text),
     chunks           |-> chunks,
     full_text        |-> text]

\* PDFProcessor.process: text is what extract_text returned or raised
ProcessExtracted(text) ==
    IF text.kind = "raise" THEN text
    ELSE [kind |-> "return", value |-> ProcessMetadata(text.value, chunk_text(text.value))]

process(file_content) == ProcessExtracted(extract_text(file_content))

\* faulty variant of UpdateMetadata: a document without chunks is marked error
UpdateMetadataStatusByChunks(metadata, document_id, filename, file_type, file_path) ==
    [total_chunks     |-> metadata.total_chunks,
     total_characters |-> metadata.total_characters,
     total_words      |-> metadata.total_words,
     chunks           |-> metadata.chunks,
     full_text        |-> metadata.full_text,
     document_id      |-> document_id,
     filename         |-> filename,
     file_type        |-> file_type,
     file_path        |-> file_path,
     status           |-> IF metadata.total_chunks = 0 THEN "error" ELSE "processed"]

\* process_document: metadata.update({...}) on what processor.process returned
UpdateMetadata(metadata, document_id, filename, file_type, file_path) ==
    [total_chunks     |-> metadata.total_chunks,
     total_characters |-> metadata.total_characters,
     total_words      |-> metadata.total_words,
     chunks           |-> metadata.chunks,
     full_text        |-> metadata.full_text,
     document_id      |-> document_id,
     filename         |-> filename,
     file_type        |-> file_type,
     file_path        |-> file_path,
     status           |-> "processed"]

\* process_document after the file type is known: processed is what
\* processor.process returned or raised
ProcessDocumentTyped(processed, document_id, filename, file_type, file_path) ==
    IF processed.kind = "raise"
    THEN [kind |-> "raise", value |-> processed.value,
          calls |-> << "save_file", "get_file_type", "extract_text" >>]
    ELSE [kind |-> "return",
          value |-> UpdateMetadata(processed.value, document_id, filename,
                                   file_type, file_path),
          calls |-> << "save_file", "get_file_type", "extract_text", "chunk_text" >>]

\* process_document after save_file: file_type is what get_file_type
\* returned or raised
ProcessDocumentSaved(file_content, filename, document_id, file_path, file_type) ==
    IF file_type.kind = "raise"
    THEN [kind |-> "raise", value |-> file_type.value,
          calls |-> << "save_file", "get_file_type" >>]
    ELSE ProcessDocumentTyped(process(file_content), document_id, filename,
                              file_type.value, file_path)

\* faulty variant of process_document: the identifier is derived from the
\* filename instead of being the one generated for this call
process_documentIdFromName(file_content, filename, document_id) ==
    ProcessDocumentSaved(file_content, filename, Len(filename),
                         save_file(Len(filename), filename), get_file_type(filename))

\* DocumentIngestionPipeline.process_document, document_id being the
\* identifier save_file generated
process_document(file_content, filename, document_id) ==
    ProcessDocumentSaved(file_content, filename, document_id,
                         save_file(document_id, filename), get_file_type(filename))

DocumentUploadResponse(document_id, filename, document_type, status, metadata) ==
    [document_id |-> document_id, filename |-> filename,
     document_type |-> document_type, status |-> status, metadata |-> metadata]

\* faulty variant of RegistryInsert: the registry is replaced by a dict that
\* holds the new entry alone
RegistryInsertAlone(store, document_id, metadata) ==
    [d \in {document_id} |-> metadata]

\* document_store[document_id] = metadata
RegistryInsert(store, document_id, metadata) ==
    [d \in DOMAIN store \cup {document_id} |->
        IF d = document_id THEN metadata ELSE store[d]]

\* the response upload_document returns for a processed document
ProcessedResponse(m, filename, file_content) ==
    DocumentUploadResponse(m.document_id, filename, m.file_type, "processed",
                           [total_chunks |-> Get(m, "total_chunks", 0),
                            total_words  |-> Get(m, "total_words", 0),
                            file_size    |-> file_content.size])

\* faulty variant of HasChunks: the vector store write is not guarded
HasChunksAlways(m) == TRUE

\* "if 'chunks' in metadata and metadata['chunks']"
HasChunks(m) == "chunks" \in DOMAIN m /\ m.chunks # << >>

\* upload_document once process_document has returned the metadata m
UploadProcessed(m, file_content, filename, store, idx, lookup, provider) ==
    IF ~HasChunks(m)
    THEN [kind |-> "return", value |-> ProcessedResponse(m, filename, file_content),
          calls |-> << "document_store" >>,
          store |-> RegistryInsert(store, m.document_id, m), idx |-> idx,
          env |-> [lookup |-> NotCalled, provider |-> NotCalled]]
    ELSE IF lookup = "raise"
    THEN [kind |-> "raise", value |-> "get_vector_store failed",
          calls |-> << "document_store", "get_vector_store" >>,
          store |-> RegistryInsert(store, m.document_id, m), idx |-> idx,
          env |-> [lookup |-> lookup, provider |-> NotCalled]]
    ELSE [kind |-> "return", value |-> ProcessedResponse(m, filename, file_content),
          calls |-> << "document_store", "get_vector_store", "add_document_chunks" >>,
          store |-> RegistryInsert(store, m.document_id, m),
          idx |-> add_document_chunks(idx, m.document_id, m.chunks,
                                      [filename     |-> m.filename,
                                       file_type    |-> m.file_type,
                                       total_chunks |-> m.total_chunks],
                                      provider),
          env |-> [lookup |-> lookup, provider |-> provider]]

\* the try block of upload_document: metadata is what process_document
\* returned or raised
UploadTry(metadata, file_content, filename, store, idx, lookup, provider) ==
    IF metadata.kind = "raise"
    THEN [kind |-> "raise", value |-> metadata.value, calls |-> metadata.calls,
          store |-> store, idx |-> idx,
          env |-> [lookup |-> NotCalled, provider |-> NotCalled]]
    ELSE PrependCalls(metadata.calls,
                      UploadProcessed(metadata.value, file_content, filename,
                                      store, idx, lookup, provider))

\* faulty variant of UploadCaught: what the try block raised propagates
UploadUncaught(b, filename) == b

\* the except clause of upload_document: whatever the try block raised
\* becomes the error response
UploadCaught(b, filename) ==
    IF b.kind = "raise"
    THEN [b EXCEPT !.kind = "return",
                   !.value = DocumentUploadResponse(EmptyId, filename, "pdf", "error",
                                                    [error |-> b.value])]
    ELSE b

upload_document(file_content, filename, document_id, store, idx, lookup, provider) ==
    UploadCaught(UploadTry(process_document(file_content, filename, document_id),
                           file_content, filename, store, idx, lookup, provider),
                 filename)

-----------------------------------------------------------------------------
(* SimpleRAGChatbot: the read operations *)

\* None, where a dict is expected
NoInfo == << >>

\* get_document_info: the dict built from the registry entry doc_data
RegistryInfo(document_id, doc_data) ==
    [document_id  |-> document_id,
     filename     |-> doc_data.filename,
     file_type    |-> doc_data.file_type,
     total_chunks |-> Get(doc_data, "total_chunks", 0),
     total_words  |-> Get(doc_data, "total_words", 0),
     status       |-> Get(doc_data, "status", "processed")]

\* get_document_info: the dict built from the metadata of the first chunk the
\* vector store holds for the document
FallbackInfo(document_id, chunks) ==
    [document_id  |-> document_id,
     filename     |-> Get(chunks[1].metadata, "filename", << "Unknown" >>),
     file_type    |-> Get(chunks[1].metadata, "file_type", "unknown"),
     total_chunks |-> Len(chunks),
     upload_date  |-> Get(chunks[1].metadata, "upload_date", "Unknown")]

\* faulty variant of InfoFallback: what the fallback finds is entered in the
\* registry
InfoFallbackCaching(document_id, chunks, store, idx, lookup, provider) ==
    [kind |-> "return",
     value |-> IF chunks = << >> THEN NoInfo ELSE FallbackInfo(document_id, chunks),
     calls |-> << "get_vector_store", "get_document_chunks" >>,
     store |-> IF chunks = << >> THEN store
               ELSE RegistryInsert(store, document_id,
                                   FallbackInfo(document_id, chunks)),
     idx |-> idx,
     env |-> [lookup |-> lookup, provider |-> provider]]

\* get_document_info once the vector store has returned chunks
InfoFallback(document_id, chunks, store, idx, lookup, provider) ==
    [kind |-> "return",
     value |-> IF chunks = << >> THEN NoInfo ELSE FallbackInfo(document_id, chunks),
     calls |-> << "get_vector_store", "get_document_chunks" >>,
     store |-> store, idx |-> idx,
     env |-> [lookup |-> lookup, provider |-> provider]]

\* the try block of get_document_info
InfoTry(document_id, store, idx, lookup, provider) ==
    IF document_id \in DOMAIN store
    THEN [kind |-> "return", value |-> RegistryInfo(document_id, store[document_id]),
          calls |-> << >>, store |-> store, idx |-> idx,
          env |-> [lookup |-> NotCalled, provider |-> NotCalled]]
    ELSE IF lookup = "raise"
    THEN [kind |-> "raise", value |-> "get_vector_store failed",
          calls |-> << "get_vector_store" >>, store |-> store, idx |-> idx,
          env |-> [lookup |-> lookup, provider |-> NotCalled]]
    ELSE InfoFallback(document_id, get_document_chunks(idx, document_id, provider),
                      store, idx, lookup, provider)

\* the except clause of get_document_info, of search_documents and of
\* get_document_chunks: log and return the empty value
ReadCaught(b, empty) ==
    IF b.kind = "raise" THEN [b EXCEPT !.kind = "return", !.value = empty] ELSE b

get_document_info(document_id, store, idx, lookup, provider) ==
    ReadCaught(InfoTry(document_id, store, idx, lookup, provider), NoInfo)

\* the keys of the registry in the order of their insertion (the identifiers
\* grow with every upload)
RECURSIVE InsertionOrder(_)
InsertionOrder(ids) ==
    IF ids = {} THEN << >>
    ELSE LET first == CHOOSE d \in ids : \A e \in ids : d <= e
         IN << first >> \o InsertionOrder(ids \ {first})

\* list_documents: the dict built for one entry of the registry
ListedDocument(doc_id, doc_data) ==
    [document_id  |-> doc_id,
     filename     |-> doc_data.filename,
     file_type    |-> doc_data.file_type,
     status       |-> Get(doc_data, "status", "processed"),
     total_chunks |-> Get(doc_data, "total_chunks", 0)]

list_documents(store, idx) ==
    [kind |-> "return",
     value |-> [k \in 1..Cardinality(DOMAIN store) |->
                   ListedDocument(InsertionOrder(DOMAIN store)[k],
                                  store[InsertionOrder(DOMAIN store)[k]])],
     calls |-> << >>, store |-> store, idx |-> idx,
     env |-> [lookup |-> NotCalled, provider |-> NotCalled]]

\* the try block of search_documents (top_k is 5 by default)
SearchTry(query, store, idx, lookup, provider, score) ==
    IF lookup = "raise"
    THEN [kind |-> "raise", value |-> "get_vector_store failed",
          calls |-> << "get_vector_store" >>, store |-> store, idx |-> idx,
          env |-> [lookup |-> lookup, provider |-> NotCalled]]
    ELSE [kind |-> "return",
          value |-> search_similar_chunks(idx, query, 5, None, provider, score),
          calls |-> << "get_vector_store", "search_similar_chunks" >>,
          store |-> store, idx |-> idx,
          env |-> [lookup |-> lookup, provider |-> provider]]

search_documents(query, store, idx, lookup, provider, score) ==
    ReadCaught(SearchTry(query, store, idx, lookup, provider, score), << >>)

\* the try block of SimpleRAGChatbot.get_document_chunks
ChunksTry(document_id, store, idx, lookup, provider) ==
    IF lookup = "raise"
    THEN [kind |-> "raise", value |-> "get_vector_store failed",
          calls |-> << "get_vector_store" >>, store |-> store, idx |-> idx,
          env |-> [lookup |-> lookup, provider |-> NotCalled]]
    ELSE [kind |-> "return",
          value |-> get_document_chunks(idx, document_id, provider),
          calls |-> << "get_vector_store", "get_document_chunks" >>,
          store |-> store, idx |-> idx,
          env |-> [lookup |-> lookup, provider |-> provider]]

\* SimpleRAGChatbot.get_document_chunks (get_document_chunks above is the
\* method of the gateway it calls)
chatbot_get_document_chunks(document_id, store, idx, lookup, provider) ==
    ReadCaught(ChunksTry(document_id, store, idx, lookup, provider), << >>)

-----------------------------------------------------------------------------
(* The HTTP endpoints (uvicorn_app.py) *)

\* settings.max_file_size_mb
max_file_size_mb == 50

\* DocumentType, the enum of the document types a response can carry
DocumentType == {"pdf"}

\* raise HTTPException(status_code, detail)
HTTPException(status_code, detail) ==
    [kind |-> "HTTPException",
     value |-> [status_code |-> status_code, detail |-> detail]]

\* "except HTTPException: raise / except Exception as e: raise
\* HTTPException(status_code=500, detail=str(e))"
EndpointCaught(b) ==
    IF b.kind = "raise"
    THEN [b EXCEPT !.kind = "HTTPException",
                   !.value = [status_code |-> 500, detail |-> b.value]]
    ELSE b

\* the try block of get_document: doc_info is what get_document_info returned
GetDocumentTry(document_id, doc_info) ==
    IF DOMAIN doc_info = {}
    THEN HTTPException(404, "Document not found")
    ELSE IF ~({"filename", "file_type", "status"} \subseteq DOMAIN doc_info)
    THEN [kind |-> "raise", value |-> "KeyError"]
    ELSE [kind |-> "return",
          value |-> [document_id |-> document_id,
                     filename    |-> doc_info.filename,
                     file_type   |-> doc_info.file_type,
                     status      |-> doc_info.status,
                     metadata    |->
                        [total_chunks     |-> Get(doc_info, "total_chunks", 0),
                         total_words      |-> Get(doc_info, "total_words", 0),
                         total_characters |-> Get(doc_info, "total_characters", 0)]]]

\* get_document once get_document_info has returned r
GetDocumentLookedUp(document_id, r) ==
    [r EXCEPT !.kind = EndpointCaught(GetDocumentTry(document_id, r.value)).kind,
              !.value = EndpointCaught(GetDocumentTry(document_id, r.value)).value]

\* GET /documents/{document_id}
get_document(document_id, store, idx, lookup, provider) ==
    GetDocumentLookedUp(document_id,
                        get_document_info(document_id, store, idx, lookup, provider))

\* GET /documents
documents_endpoint(store, idx) == EndpointCaught(list_documents(store, idx))

\* POST /chat
chat(req, idx, lookup, provider, score, llm) ==
    IF Strip(req.message) = << >>
    THEN [kind |-> "HTTPException",
          value |-> [status_code |-> 400, detail |-> "Message cannot be empty"],
          calls |-> << >>, results |-> << >>, context |-> << >>,
          env |-> [lookup |-> NotCalled, provider |-> NotCalled, llm |-> NotCalled]]
    ELSE EndpointCaught(process_chat_message(req, idx, lookup, provider, score, llm))

\* no upload_multiple_files coroutine is in flight
NoBatch ==
    [pc |-> "none", files |-> << >>, position |-> 0, passed |-> {},
     responses |-> << >>, errors |-> << >>, outcome |-> << >>]

\* upload_multiple_files up to the loop: the two checks of the file list
BatchBegun(files) ==
    IF files = << >>
    THEN [NoBatch EXCEPT !.pc = "done", !.files = files,
                         !.outcome = HTTPException(400, "No files provided")]
    ELSE IF Len(files) > 10
    THEN [NoBatch EXCEPT !.pc = "done", !.files = files,
                         !.outcome = HTTPException(400,
                                        "Maximum 10 files allowed per upload")]
    ELSE [NoBatch EXCEPT !.pc = "loop", !.files = files, !.position = 1]

\* str.lower()
LowerName(filename) == [i \in 1..Len(filename) |-> Lower(filename[i])]

\* str.endswith(t)
EndsWith(s, t) ==
    /\ Len(s) >= Len(t)
    /\ SubSeq(s, Len(s) - Len(t) + 1, Len(s)) = t

\* the loop body once upload_document has returned (or raised) r
FileUploaded(r, file, document_id) ==
    [kind |-> r.kind, value |-> r.value,
     error |-> IF r.kind = "raise" THEN r.value ELSE "none",
     store |-> r.store, idx |-> r.idx,
     saved |-> { save_file(document_id, file.filename) }, uploaded |-> TRUE]

\* the try block of the loop body for one file; file.read says whether
\* "await file.read()" returns the bytes or raises
FileTry(file, document_id, store, idx, lookup, provider) ==
    IF ~EndsWith(LowerName(file.filename), << ".", "p", "d", "f" >>)
    THEN [kind |-> "continue", value |-> "Only PDF files are allowed",
          error |-> "Only PDF files are allowed",
          store |-> store, idx |-> idx, saved |-> {}, uploaded |-> FALSE]
    ELSE IF file.read = "raise"
    THEN [kind |-> "raise", value |-> "read failed",
          error |-> "read failed",
          store |-> store, idx |-> idx, saved |-> {}, uploaded |-> FALSE]
    ELSE IF file.file_content.size > max_file_size_mb * 1024 * 1024
    THEN [kind |-> "continue", value |-> "File size exceeds maximum",
          error |-> "File size exceeds maximum",
          store |-> store, idx |-> idx, saved |-> {}, uploaded |-> FALSE]
    ELSE FileUploaded(upload_document(file.file_content, file.filename, document_id,
                                      store, idx, lookup, provider),
                      file, document_id)

\* the except clause of the loop body: the error is appended and a
\* DocumentUploadResponse(document_id="", document_type="unknown",
\* status='error') is built for the list of responses; pydantic validates
\* document_type against DocumentType and raises when it is no member
FileCaught(b, file) ==
    IF b.kind # "raise" THEN b
    ELSE IF "unknown" \in DocumentType
    THEN [b EXCEPT !.kind = "caught",
                   !.value = DocumentUploadResponse(EmptyId, file.filename, "unknown",
                                                    "error", [error |-> b.value])]
    ELSE [b EXCEPT !.kind = "raise", !.value = "ValidationError"]

\* one pass of the loop body
upload_file(file, document_id, store, idx, lookup, provider) ==
    FileCaught(FileTry(file, document_id, store, idx, lookup, provider), file)

\* the coroutine b after the pass r of the loop body for its next file: the
\* lists have grown, or the exception r raised has reached the outer except
\* clause of upload_multiple_files
BatchAfterFile(b, r) ==
    IF r.kind = "raise"
    THEN [b EXCEPT !.pc = "done",
                   !.passed = IF r.uploaded THEN @ \cup {b.position} ELSE @,
                   !.errors = Append(@, [filename |-> b.files[b.position].filename,
                                         error |-> r.error]),
                   !.outcome = HTTPException(500, r.value)]
    ELSE [b EXCEPT !.position = @ + 1,
                   !.passed = IF r.uploaded THEN @ \cup {b.position} ELSE @,
                   !.responses = IF r.kind = "continue" THEN @ ELSE Append(@, r.value),
                   !.errors = IF r.kind = "return" THEN @
                              ELSE Append(@, [filename |-> b.files[b.position].filename,
                                              error |-> r.error])]

\* "if not responses or all(r.status == 'error' for r in responses)"
AllUploadsFailed(responses) ==
    \/ responses = << >>
    \/ \A k \in 1..Len(responses) : responses[k].status = "error"

\* upload_multiple_files after the loop: the coroutine b once no file is left
BatchFinished(b) ==
    IF b.pc # "loop" \/ b.position <= Len(b.files) THEN b
    ELSE IF AllUploadsFailed(b.responses)
    THEN [b EXCEPT !.pc = "done",
                   !.outcome = HTTPException(500, << "All uploads failed", b.errors >>)]
    ELSE [b EXCEPT !.pc = "done",
                   !.outcome = [kind |-> "return", value |-> b.responses]]

-----------------------------------------------------------------------------
(* Inputs *)

ShortText == << "a", " ", "b" >>
Text200 == Rep("x", SourcePreviewLen - 1) \o << "y" >>
Text201 == Rep("x", SourcePreviewLen) \o << "y" >>

Filenames ==
    { << "a", ".", "p", "d", "f" >>,
      << "b", ".", "P", "D", "F" >>,
      << "c", ".", "t", "x", "t" >>,
      << "d" >> }

\* an upload's bytes: whether PyPDF2 can read them, the text of each page,
\* and their length
FileContents ==
    { [readable |-> FALSE, pages |-> << >>, size |-> 1],
      [readable |-> TRUE, pages |-> << << >> >>, size |-> 2],
      [readable |-> TRUE, pages |-> << ShortText >>, size |-> 3],
      [readable |-> TRUE, pages |-> << Text201 >>, size |-> 4] }

\* the uploads whose text fits one chunk
UploadableContents ==
    { f \in FileContents : Len(PagesText(f.pages)) <= max_chunk_size }

Messages == { << >>, << " ", "\t" >>, << " ", "q", " " >> }

\* what earlier process lifetimes left in the durable index: three
\* one-chunk documents
PersistedChunk(document_id, filename, content) ==
    [document_id |-> document_id, ordinal |-> 1, content |-> content,
     metadata |-> [filename |-> filename, file_type |-> "pdf", total_chunks |-> 1]]

PersistedIndex ==
    << PersistedChunk(1, << "o", ".", "p", "d", "f" >>, ShortText),
       PersistedChunk(2, << "p", ".", "p", "d", "f" >>, Text200),
       PersistedChunk(3, << "o", ".", "p", "d", "f" >>, Text201) >>

FirstId == Len(PersistedIndex) + 1
LastId == Len(PersistedIndex) + MaxDocs

-----------------------------------------------------------------------------
(* The state machine *)

\* the process starts: rag_chatbot = SimpleRAGChatbot() has an empty registry,
\* the index holds what it held when the last process ended
Init ==
    /\ document_store = << >>
    /\ index \in { << >>, PersistedIndex }
    /\ upload_dir = {}
    /\ next_id = FirstId
    /\ op = "idle"
    /\ request = << >>
    /\ env = << >>
    /\ calls = << >>
    /\ search_results = << >>
    /\ context_text = << >>
    /\ outcome = [kind |-> "return", value |-> << >>]
    /\ batch = NoBatch

\* the relevance scores the index can give the chunks of a search space (the
\* chunks outside it are not scored)
ScoreFunctions(idx, document_id) ==
    { [i \in 1..Len(idx) |-> IF i \in Candidates(idx, document_id) THEN f[i] ELSE 1] :
        f \in [Candidates(idx, document_id) -> Scores] }

\* POST /chat -> rag_chatbot.process_chat_message(request).  A collaborator
\* the request cannot reach is not given alternative behaviours.
ProcessChatMessage ==
    /\ op = "idle"
    /\ \E message \in Messages, document_id \in {None} \cup 1..next_id :
       \E lookup \in IF Strip(message) = << >> THEN {"ok"} ELSE {"ok", "raise"} :
       \E provider \in IF Strip(message) = << >> \/ lookup = "raise"
                       THEN {"up"} ELSE {"up", "down"} :
       \E score \in IF Strip(message) = << >> \/ lookup = "raise" \/ provider = "down"
                    THEN { [i \in 1..Len(index) |-> 1] }
                    ELSE ScoreFunctions(index, document_id) :
       \E llm \in IF \/ Strip(message) = << >>
                     \/ lookup = "raise"
                     \/ provider = "down"
                     \/ Candidates(index, document_id) = {}
                  THEN {"ok"} ELSE {"ok", "fail"} :
       \E r \in { process_chat_message(
                      [message |-> message, document_id |-> document_id],
                      index, lookup, provider, score, llm) } :
         /\ op' = "process_chat_message"
         /\ request' = [message |-> message, document_id |-> document_id]
         /\ env' = r.env
         /\ calls' = r.calls
         /\ search_results' = r.results
         /\ context_text' = r.context
         /\ outcome' = [kind |-> r.kind, value |-> r.value]
         /\ UNCHANGED << document_store, index, upload_dir, next_id, batch >>

\* rag_chatbot.upload_document(file_content, filename)
UploadDocument ==
    /\ op = "idle"
    /\ next_id <= LastId
    /\ \E file_content \in UploadableContents, filename \in Filenames,
          lookup \in {"ok", "raise"}, provider \in {"up", "down"} :
      \E r \in { upload_document(file_content, filename, next_id,
                                 document_store, index, lookup, provider) } :
            /\ op' = "upload_document"
            /\ request' = [file_content |-> file_content, filename |-> filename]
            /\ env' = r.env
            /\ calls' = r.calls
            /\ search_results' = << >>
            /\ context_text' = << >>
            /\ outcome' = [kind |-> r.kind, value |-> r.value]
            /\ document_store' = r.store
            /\ index' = r.idx
            /\ upload_dir' = upload_dir \cup { save_file(next_id, filename) }
            /\ next_id' = next_id + 1
            /\ UNCHANGED batch

\* rag_chatbot.get_document_info(document_id), for the id of a document of
\* the registry, of the index, or of neither
GetDocumentInfo ==
    /\ op = "idle"
    /\ \E document_id \in 1..next_id :
       \E lookup \in IF document_id \in DOMAIN document_store
                     THEN {"ok"} ELSE {"ok", "raise"} :
       \E provider \in IF document_id \in DOMAIN document_store \/ lookup = "raise"
                       THEN {"up"} ELSE {"up", "down"} :
       \E r \in { get_document_info(document_id, document_store, index,
                                    lookup, provider) } :
         /\ op' = "get_document_info"
         /\ request' = [document_id |-> document_id]
         /\ env' = r.env
         /\ calls' = r.calls
         /\ search_results' = << >>
         /\ context_text' = << >>
         /\ outcome' = [kind |-> r.kind, value |-> r.value]
         /\ document_store' = r.store
         /\ index' = r.idx
         /\ UNCHANGED << upload_dir, next_id, batch >>

\* rag_chatbot.list_documents()
ListDocuments ==
    /\ op = "idle"
    /\ \E r \in { list_documents(document_store, index) } :
         /\ op' = "list_documents"
         /\ request' = << >>
         /\ env' = r.env
         /\ calls' = r.calls
         /\ search_results' = << >>
         /\ context_text' = << >>
         /\ outcome' = [kind |-> r.kind, value |-> r.value]
         /\ document_store' = r.store
         /\ index' = r.idx
         /\ UNCHANGED << upload_dir, next_id, batch >>

\* rag_chatbot.search_documents(query); the index finds every chunk equally
\* relevant, or the chunk stored last the most relevant
SearchDocuments ==
    /\ op = "idle"
    /\ \E query \in Messages, lookup \in {"ok", "raise"} :
       \E provider \in IF lookup = "raise" THEN {"up"} ELSE {"up", "down"} :
       \E score \in IF lookup = "raise" \/ provider = "down"
                    THEN { [i \in 1..Len(index) |-> 1] }
                    ELSE { [i \in 1..Len(index) |-> 1],
                           [i \in 1..Len(index) |-> IF i = Len(index) THEN 2 ELSE 1] } :
       \E r \in { search_documents(query, document_store, index,
                                   lookup, provider, score) } :
         /\ op' = "search_documents"
         /\ request' = [query |-> query]
         /\ env' = r.env
         /\ calls' = r.calls
         /\ search_results' = r.value
         /\ context_text' = << >>
         /\ outcome' = [kind |-> r.kind, value |-> r.value]
         /\ document_store' = r.store
         /\ index' = r.idx
         /\ UNCHANGED << upload_dir, next_id, batch >>

\* rag_chatbot.get_document_chunks(document_id)
GetDocumentChunks ==
    /\ op = "idle"
    /\ \E document_id \in 1..next_id, lookup \in {"ok", "raise"} :
       \E provider \in IF lookup = "raise" THEN {"up"} ELSE {"up", "down"} :
       \E r \in { chatbot_get_document_chunks(document_id, document_store, index,
                                              lookup, provider) } :
         /\ op' = "get_document_chunks"
         /\ request' = [document_id |-> document_id]
         /\ env' = r.env
         /\ calls' = r.calls
         /\ search_results' = << >>
         /\ context_text' = << >>
         /\ outcome' = [kind |-> r.kind, value |-> r.value]
         /\ document_store' = r.store
         /\ index' = r.idx
         /\ UNCHANGED << upload_dir, next_id, batch >>

\* the response has been delivered to the caller: the handler's frame is gone
RequestDone ==
    /\ op # "idle"
    /\ op' = "idle"
    /\ request' = << >>
    /\ env' = << >>
    /\ calls' = << >>
    /\ search_results' = << >>
    /\ context_text' = << >>
    /\ outcome' = [kind |-> "return", value |-> << >>]
    /\ UNCHANGED << document_store, index, upload_dir, next_id, batch >>

Next ==
    \/ ProcessChatMessage
    \/ UploadDocument
    \/ GetDocumentInfo
    \/ ListDocuments
    \/ SearchDocuments
    \/ GetDocumentChunks
    \/ RequestDone

Spec == Init /\ [][Next]_vars

-----------------------------------------------------------------------------
(* The chunker on its own: PDFProcessor.chunk_text under every setting of
   max_chunk_size = C and chunk_overlap = O with 0 <= O < C *)

\* the characters of the texts: two letters, the space and the line break
ChunkAlphabet == {"a", "b", " ", "\n"}

ChunkTexts == UNION { [1..n -> ChunkAlphabet] : n \in 0..MaxTextLen }

ChunkInit ==
    /\ document_store = << >>
    /\ index = << >>
    /\ upload_dir = {}
    /\ next_id = FirstId
    /\ op = "idle"
    /\ request = << >>
    /\ env = << >>
    /\ calls = << >>
    /\ search_results = << >>
    /\ context_text = << >>
    /\ outcome = [kind |-> "return", value |-> << >>]
    /\ batch = NoBatch

\* processor.chunk_text(text); splitter says whether split_text returns or
\* raises
ChunkTextCalled ==
    /\ op = "idle"
    /\ \E text \in ChunkTexts, chunk_size \in 1..MaxChunkSize, splitter \in {"ok", "fail"} :
       \E overlap \in 0..(chunk_size - 1) :
       \E spans \in { ChunkSpans(text, chunk_size, overlap, splitter) } :
         /\ op' = "chunk_text"
         /\ request' = [text |-> text, chunk_size |-> chunk_size,
                        chunk_overlap |-> overlap]
         /\ env' = [splitter |-> splitter, spans |-> spans]
         /\ calls' = IF splitter = "fail" THEN << "split_text", "fallback" >>
                     ELSE << "split_text" >>
         /\ outcome' = [kind |-> "return", value |-> ChunksAt(text, spans)]
         /\ UNCHANGED << document_store, index, upload_dir, next_id,
                         search_results, context_text, batch >>

ChunkNext == ChunkTextCalled \/ RequestDone

ChunkSpec == ChunkInit /\ [][ChunkNext]_vars

-----------------------------------------------------------------------------
(* The HTTP endpoints under concurrent requests.  The endpoints are
   coroutines of one event loop: upload_multiple_files is suspended at
   "await file.read()", once for every file it reads, and the loop serves
   other requests meanwhile; the methods of the orchestrator have no
   suspension point and run to their end. *)

\* the largest upload the size check lets through, in bytes
MaxUploadBytes == max_file_size_mb * 1024 * 1024

\* the files a client sends: a PDF with text, a text file, a PDF over the
\* size limit, a PDF of exactly the size limit without a text layer, an
\* unreadable PDF, and a PDF whose bytes cannot be read from the request
UploadFiles ==
    { [filename |-> << "a", ".", "p", "d", "f" >>, read |-> "ok",
       file_content |-> [readable |-> TRUE, pages |-> << ShortText >>, size |-> 3]],
      [filename |-> << "c", ".", "t", "x", "t" >>, read |-> "ok",
       file_content |-> [readable |-> TRUE, pages |-> << ShortText >>, size |-> 3]],
      [filename |-> << "a", ".", "p", "d", "f" >>, read |-> "ok",
       file_content |-> [readable |-> TRUE, pages |-> << ShortText >>,
                         size |-> MaxUploadBytes + 1]],
      [filename |-> << "b", ".", "P", "D", "F" >>, read |-> "ok",
       file_content |-> [readable |-> TRUE, pages |-> << << >> >>,
                         size |-> MaxUploadBytes]],
      [filename |-> << "b", ".", "P", "D", "F" >>, read |-> "ok",
       file_content |-> [readable |-> FALSE, pages |-> << >>, size |-> 1]],
      [filename |-> << "a", ".", "p", "d", "f" >>, read |-> "raise",
       file_content |-> [readable |-> TRUE, pages |-> << ShortText >>, size |-> 3]] }

\* the file lists of a request: none, up to MaxDocs files, or eleven files
FileLists ==
    UNION { [1..n -> UploadFiles] : n \in 0..MaxDocs }
       \cup { [k \in 1..11 |->
                 [filename |-> << "a", ".", "p", "d", "f" >>, read |-> "ok",
                  file_content |-> [readable |-> TRUE, pages |-> << ShortText >>,
                                    size |-> 3]]] }

\* POST /upload/multiple is called: the checks of the file list
UploadMultipleFilesCalled ==
    /\ op = "idle"
    /\ batch.pc = "none"
    /\ \E files \in FileLists :
         /\ Len(files) > 10 \/ next_id + Len(files) - 1 <= LastId
         /\ batch' = BatchBegun(files)
    /\ UNCHANGED << document_store, index, upload_dir, next_id, op, request, env,
                    calls, search_results, context_text, outcome >>

\* the coroutine is resumed for its next file and runs to the next
\* "await file.read()", or to its end when no file is left
UploadMultipleFilesResumed ==
    /\ op = "idle"
    /\ batch.pc = "loop"
    /\ \E lookup \in {"ok", "raise"}, provider \in {"up", "down"} :
       \E r \in { upload_file(batch.files[batch.position], next_id,
                              document_store, index, lookup, provider) } :
         /\ batch' = BatchFinished(BatchAfterFile(batch, r))
         /\ document_store' = r.store
         /\ index' = r.idx
         /\ upload_dir' = upload_dir \cup r.saved
         /\ next_id' = IF r.uploaded THEN next_id + 1 ELSE next_id
    /\ UNCHANGED << op, request, env, calls, search_results, context_text, outcome >>

\* the response of the batch upload has been delivered
UploadMultipleFilesDone ==
    /\ batch.pc = "done"
    /\ batch' = NoBatch
    /\ UNCHANGED << document_store, index, upload_dir, next_id, op, request, env,
                    calls, search_results, context_text, outcome >>

\* GET /documents/{document_id}
GetDocument ==
    /\ op = "idle"
    /\ \E document_id \in 1..next_id :
       \E lookup \in IF document_id \in DOMAIN document_store
                     THEN {"ok"} ELSE {"ok", "raise"} :
       \E provider \in IF document_id \in DOMAIN document_store \/ lookup = "raise"
                       THEN {"up"} ELSE {"up", "down"} :
       \E r \in { get_document(document_id, document_store, index, lookup, provider) } :
         /\ op' = "get_document"
         /\ request' = [document_id |-> document_id]
         /\ env' = r.env
         /\ calls' = r.calls
         /\ search_results' = << >>
         /\ context_text' = << >>
         /\ outcome' = [kind |-> r.kind, value |-> r.value]
         /\ document_store' = r.store
         /\ index' = r.idx
         /\ UNCHANGED << upload_dir, next_id, batch >>

\* GET /documents
Documents ==
    /\ op = "idle"
    /\ \E r \in { documents_endpoint(document_store, index) } :
         /\ op' = "documents"
         /\ request' = << >>
         /\ env' = r.env
         /\ calls' = r.calls
         /\ search_results' = << >>
         /\ context_text' = << >>
         /\ outcome' = [kind |-> r.kind, value |-> r.value]
         /\ document_store' = r.store
         /\ index' = r.idx
         /\ UNCHANGED << upload_dir, next_id, batch >>

\* POST /chat, for a blank message and for a question over all documents
\* that the index scores evenly
ChatCalled ==
    /\ op = "idle"
    /\ \E message \in { << " ", "\t" >>, << " ", "q", " " >> }, llm \in {"ok", "fail"} :
       \E r \in { chat([message |-> message, document_id |-> None], index,
                       "ok", "up", [i \in 1..Len(index) |-> 1], llm) } :
         /\ op' = "chat"
         /\ request' = [message |-> message, document_id |-> None]
         /\ env' = r.env
         /\ calls' = r.calls
         /\ search_results' = r.results
         /\ context_text' = r.context
         /\ outcome' = [kind |-> r.kind, value |-> r.value]
         /\ UNCHANGED << document_store, index, upload_dir, next_id, batch >>

ApiNext ==
    \/ UploadMultipleFilesCalled
    \/ UploadMultipleFilesResumed
    \/ UploadMultipleFilesDone
    \/ GetDocument
    \/ Documents
    \/ ChatCalled
    \/ RequestDone

ApiSpec == Init /\ [][ApiNext]_vars

-----------------------------------------------------------------------------
(* Properties of the query path *)

Range(f) == { f[i] : i \in DOMAIN f }

\* a chat request has just been handled
Chat == op = "process_chat_message"

AllWhitespace(message) == \A i \in 1..Len(message) : message[i] \in Whitespace

SearchCalled == "search_similar_chunks" \in Range(calls)
ModelCalled == "chat.completions.create" \in Range(calls)

\* C1: a chat request whose message is empty or all whitespace returns the
\* prompting response with no sources, and neither the vector store search
\* nor the language model is called.
EmptyQueryReturnsPromptWithoutRetrieval ==
    (Chat /\ AllWhitespace(request.message)) =>
        /\ outcome.kind = "return"
        /\ outcome.value.response = PromptingMessage
        /\ outcome.value.sources = << >>
        /\ ~SearchCalled
        /\ ~ModelCalled

WhitespaceOnlyQueryHandled ==
    /\ Chat
    /\ request.message # << >>
    /\ AllWhitespace(request.message)
    /\ index # << >>
    /\ outcome.value.response = PromptingMessage

\* C2: a chat request with a non-empty query whose search returns no result
\* gets the fixed "no relevant information" message, no sources and
\* context_chunks_found = 0, and the language model is not called.
NoResultsReturnsFixedMessageWithoutModel ==
    (Chat /\ ~AllWhitespace(request.message) /\ SearchCalled /\ search_results = << >>) =>
        /\ outcome.kind = "return"
        /\ outcome.value.response = NoInformationMessage
        /\ outcome.value.sources = << >>
        /\ outcome.value.metadata.context_chunks_found = 0
        /\ ~ModelCalled

ScopedQueryFoundNothing ==
    /\ Chat
    /\ SearchCalled
    /\ env.provider = "up"
    /\ index # << >>
    /\ search_results = << >>
    /\ outcome.value.response = NoInformationMessage

\* the shapes a ChatResponse of the query path can have
WellFormedChatResponse(v) ==
    /\ DOMAIN v = {"response", "sources", "metadata"}
    /\ v.response \in { PromptingMessage, NoInformationMessage, ErrorMessage,
                        ApologyMessage, Strip(CompletionText) }
    /\ DOMAIN v.sources = 1..Len(v.sources)
    /\ \A k \in 1..Len(v.sources) :
          DOMAIN v.sources[k] = {"content", "metadata", "relevance_score", "document_type"}
    /\ DOMAIN v.metadata \in { {"error"}, {"context_chunks_found"},
                               {"context_chunks_found", "document_id", "query_type"} }

\* C3: process_chat_message never raises, whichever collaborator fails: it
\* always returns a well-formed ChatResponse (response, sources, metadata).
ChatNeverRaises ==
    Chat => (outcome.kind = "return" /\ WellFormedChatResponse(outcome.value))

VectorStoreLookupFailureAnswered ==
    /\ Chat
    /\ env.lookup = "raise"
    /\ outcome.kind = "return"
    /\ outcome.value.response = ErrorMessage

\* C4: when the search returned at least one result and the language-model
\* call fails, the response is the fixed apology string and still carries one
\* source per search result and the metadata of a successful query.
ModelFailureKeepsSourcesAndMetadata ==
    (Chat /\ search_results # << >> /\ env.llm = "fail") =>
        /\ outcome.kind = "return"
        /\ outcome.value.response = ApologyMessage
        /\ Len(outcome.value.sources) = Len(search_results)
        /\ \A k \in 1..Len(search_results) :
              /\ outcome.value.sources[k].metadata = search_results[k].metadata
              /\ outcome.value.sources[k].relevance_score
                    = search_results[k].relevance_score
        /\ outcome.value.metadata =
              [context_chunks_found |-> Len(search_results),
               document_id |-> request.document_id,
               query_type |-> "rag"]

ModelFailedAfterSearchHit ==
    /\ Chat
    /\ env.llm = "fail"
    /\ Len(search_results) > 1
    /\ outcome.value.response = ApologyMessage

ScopedQueryStaysInDocument ==
    (Chat /\ request.document_id # None /\ outcome.kind = "return") =>
        /\ \A k \in 1..Len(search_results) :
              search_results[k].metadata.document_id = request.document_id
        /\ \A k \in 1..Len(outcome.value.sources) :
              outcome.value.sources[k].metadata.document_id = request.document_id

ScopedQueryAmongOtherDocuments ==
    /\ Chat
    /\ request.document_id # None
    /\ outcome.value.sources # << >>
    /\ \E i \in 1..Len(index) : index[i].document_id # request.document_id

\* the context string the specification describes for the results rs: the
\* header, then per result a line break, the label numbered from 1, a line
\* break, the chunk text, a line break and the empty line that ends the block
RECURSIVE ExpectedBlocks(_, _)
ExpectedBlocks(rs, i) ==
    IF i > Len(rs) THEN << >>
    ELSE << "\n", "Source ", ToString(i), " (from " >> \o rs[i].metadata.filename
            \o << "):", "\n" >> \o rs[i].content \o << "\n" >>
            \o ExpectedBlocks(rs, i + 1)

ExpectedContext(rs) == ContextHeader \o ExpectedBlocks(rs, 1)

\* how many results of rs rank before the k-th: a higher relevance score, or
\* the same score and an earlier place in the order the gateway returned
RankedBefore(rs, k) ==
    Cardinality({ j \in 1..Len(rs) :
                    \/ rs[j].relevance_score > rs[k].relevance_score
                    \/ (rs[j].relevance_score = rs[k].relevance_score /\ j < k) })

\* the (up to) three best results of rs, best first
TopByScore(rs) ==
    [r \in 1..Min(ContextTopN, Len(rs)) |->
        rs[CHOOSE k \in 1..Len(rs) : RankedBefore(rs, k) = r - 1]]

\* the context has been assembled during the request
ContextAssembled == Chat /\ search_results # << >> /\ ModelCalled

\* C7: the results placed in the context are the (up to) 3 search results
\* with the highest relevance scores, ties broken by the order in which the
\* gateway returned them.
ContextHoldsTopThreeByScore ==
    ContextAssembled => context_text = ExpectedContext(TopByScore(search_results))

ContextCutAtATie ==
    /\ ContextAssembled
    /\ Len(search_results) > ContextTopN
    /\ search_results[ContextTopN].relevance_score
          = search_results[ContextTopN + 1].relevance_score
    /\ search_results[1].relevance_score > search_results[ContextTopN].relevance_score

\* C8: for n >= 1 results the context string is the header banner followed by
\* exactly min(3, n) blocks, block i being the label "Source i (from
\* <filename of result i>):", the unmodified chunk text of result i and a
\* blank line, numbered from 1 in result order.
ContextIsHeaderAndNumberedBlocks ==
    ContextAssembled =>
        \E k \in 1..3 :
            /\ k = Min(3, Len(search_results))
            /\ context_text = ContextHeader
                                \o ExpectedBlocks(SubSeq(search_results, 1, k), 1)

ContextOfTwoDifferentFiles ==
    /\ ContextAssembled
    /\ Len(search_results) = 2
    /\ search_results[1].metadata.filename # search_results[2].metadata.filename
    /\ Len(context_text) > 1

\* C9: for a query with n >= 1 search results the response has exactly n
\* sources, one per search result in gateway order (not only the up-to-3 of
\* the context), and metadata context_chunks_found = n.
OneSourcePerSearchResult ==
    (Chat /\ search_results # << >>) =>
        /\ outcome.kind = "return"
        /\ Len(outcome.value.sources) = Len(search_results)
        /\ \A k \in 1..Len(search_results) :
              /\ outcome.value.sources[k].metadata = search_results[k].metadata
              /\ outcome.value.sources[k].relevance_score
                    = search_results[k].relevance_score
              /\ outcome.value.sources[k].document_type
                    = search_results[k].metadata.file_type
        /\ outcome.value.metadata.context_chunks_found = Len(search_results)

MoreSourcesThanContextBlocks ==
    /\ Chat
    /\ Len(search_results) > ContextTopN
    /\ Len(outcome.value.sources) = Len(search_results)
    /\ env.llm = "ok"

\* C10: the content of a source is the chunk text unchanged when it has at
\* most 200 characters, and otherwise its first 200 characters followed by
\* "..."; the ellipsis is appended only when the text was truncated.
SourceContentTruncatedAt200 ==
    Chat =>
        \A k \in 1..Min(Len(search_results), Len(outcome.value.sources)) :
            LET text == search_results[k].content
                shown == outcome.value.sources[k].content
            IN  /\ Len(text) <= 200 => shown = text
                /\ Len(text) > 200 =>
                      /\ Len(shown) = 203
                      /\ \A i \in 1..200 : shown[i] = text[i]
                      /\ \A i \in 201..203 : shown[i] = "."

SourcesAtBothSidesOf200 ==
    /\ Chat
    /\ \E k \in 1..Len(outcome.value.sources) :
          Len(search_results[k].content) = 200
    /\ \E k \in 1..Len(outcome.value.sources) :
          /\ Len(search_results[k].content) = 201
          /\ Len(outcome.value.sources[k].content) = 203

\* how many times a collaborator was called
Count(called, name) == Cardinality({ i \in 1..Len(called) : called[i] = name })

\* C23: within one query request the vector store search is called at most
\* once and the language model at most once, with no retry on failure; the
\* model is called only after a search that returned at least one result; a
\* provider failure is converted once into the degraded response, and the
\* request completes.
AtMostOneSearchAndOneModelCall ==
    Chat =>
        /\ Count(calls, "get_vector_store") <= 1
        /\ Count(calls, "search_similar_chunks") <= 1
        /\ Count(calls, "chat.completions.create") <= 1
        /\ ModelCalled =>
              /\ search_results # << >>
              /\ \E i, j \in 1..Len(calls) :
                    /\ i < j
                    /\ calls[i] = "search_similar_chunks"
                    /\ calls[j] = "chat.completions.create"
        /\ outcome.kind = "return"
        /\ env.llm = "fail" =>
              /\ Count(calls, "chat.completions.create") = 1
              /\ outcome.value.response = ApologyMessage
        /\ env.provider = "down" =>
              /\ Count(calls, "search_similar_chunks") = 1
              /\ ~ModelCalled
              /\ outcome.value.response = NoInformationMessage
        /\ env.lookup = "raise" =>
              /\ ~SearchCalled
              /\ ~ModelCalled
              /\ outcome.value.response = ErrorMessage

ScopedQueryDegradedAfterOneModelCall ==
    /\ Chat
    /\ request.document_id # None
    /\ env.llm = "fail"
    /\ calls = << "get_vector_store", "search_similar_chunks",
                  "chat.completions.create" >>
    /\ outcome.value.response = ApologyMessage

-----------------------------------------------------------------------------
(* Properties of the ingestion path *)

\* an upload has just been handled
Upload == op = "upload_document"

\* the identifier the upload that was just handled was given
UploadId == next_id - 1

\* the response of the upload that was just handled
UploadStatus == outcome.value.status

\* the filename ends in ".pdf", in whatever case
EndsInPdf(filename) ==
    /\ Len(filename) > 4
    /\ filename[Len(filename) - 3] = "."
    /\ filename[Len(filename) - 2] \in {"p", "P"}
    /\ filename[Len(filename) - 1] \in {"d", "D"}
    /\ filename[Len(filename)] \in {"f", "F"}

\* the chunks of the index stored under document_id
ChunksOf(idx, document_id) ==
    { i \in 1..Len(idx) : idx[i].document_id = document_id }

\* C11: an upload whose filename extension is not .pdf (in any case) fails
\* with the unsupported-type error: the response has status error, the
\* registry is as it was before the upload and so is the vector index.
UnsupportedTypeUploadFails ==
    [][(op' = "upload_document" /\ ~EndsInPdf(request'.filename)) =>
          /\ outcome'.kind = "return"
          /\ outcome'.value.status = "error"
          /\ outcome'.value.metadata = [error |-> "Unsupported file type"]
          /\ document_store' = document_store
          /\ index' = index]_vars

TextFileRejectedBesideRegisteredPdf ==
    /\ Upload
    /\ request.filename = << "c", ".", "t", "x", "t" >>
    /\ request.file_content.readable
    /\ UploadStatus = "error"
    /\ document_store # << >>
    /\ index # << >>

\* every page of the PDF yields the empty text: it has no text layer
NoTextLayer(file_content) ==
    /\ file_content.readable
    /\ file_content.pages # << >>
    /\ \A k \in 1..Len(file_content.pages) : file_content.pages[k] = << >>

UploadFailure ==
    IF ~EndsInPdf(request.filename) THEN "Unsupported file type"
    ELSE IF ~request.file_content.readable THEN "PdfReadError"
    ELSE IF env.lookup = "raise" THEN "get_vector_store failed"
    ELSE "nothing"

WellFormedUploadResponse(v) ==
    /\ DOMAIN v = {"document_id", "filename", "document_type", "status", "metadata"}
    /\ v.document_type = "pdf"
    /\ v.status \in {"processed", "error"}
    /\ DOMAIN v.metadata \in { {"error"}, {"total_chunks", "total_words", "file_size"} }

\* C13: upload_document never raises: a type error, an extraction error or
\* any other failure during the ingestion comes back to the caller as a
\* DocumentUploadResponse with status error that carries the error message.
UploadNeverRaises ==
    Upload =>
        /\ outcome.kind = "return"
        /\ WellFormedUploadResponse(outcome.value)
        /\ outcome.value.filename = request.filename
        /\ UploadFailure # "nothing" =>
              /\ UploadStatus = "error"
              /\ outcome.value.metadata = [error |-> UploadFailure]
        /\ UploadFailure = "nothing" => UploadStatus = "processed"

VectorStoreLookupFailureDuringUpload ==
    /\ Upload
    /\ EndsInPdf(request.filename)
    /\ request.file_content.readable
    /\ env.lookup = "raise"
    /\ outcome.kind = "return"
    /\ UploadStatus = "error"

\* the upload that was just handled got through extraction and chunking
Chunked == Upload /\ "chunk_text" \in Range(calls)

\* the upload that was just handled is in the registry
Registered == UploadId \in DOMAIN document_store

\* the call a comes before the call b among the calls of the request
CalledBefore(a, b) ==
    \E i, j \in 1..Len(calls) : i < j /\ calls[i] = a /\ calls[j] = b

VectorWriteCalled == "add_document_chunks" \in Range(calls)

\* C14 as stated: in upload_document add_document_chunks is called if and
\* only if the chunker produced at least one chunk, and always after the
\* registry insert; a document with zero chunks is still registered and the
\* upload returns status processed.
VectorWriteIffChunks ==
    Chunked =>
        /\ Registered
        /\ VectorWriteCalled <=> document_store[UploadId].chunks # << >>
        /\ VectorWriteCalled => CalledBefore("document_store", "add_document_chunks")
        /\ document_store[UploadId].chunks = << >> => UploadStatus = "processed"

\* C14, amended: add_document_chunks is called if and only if the chunker
\* produced at least one chunk and get_vector_store() returned the store (it
\* is called exactly when there is a chunk; when it raises nothing is written
\* and the upload returns status error), and always after the registry
\* insert; a document with zero chunks is still registered and the upload
\* returns status processed.
VectorWriteIffChunksAndStoreObtained ==
    Chunked =>
        /\ Registered
        /\ "get_vector_store" \in Range(calls)
              <=> document_store[UploadId].chunks # << >>
        /\ VectorWriteCalled
              <=> (document_store[UploadId].chunks # << >> /\ env.lookup # "raise")
        /\ "get_vector_store" \in Range(calls)
              => CalledBefore("document_store", "get_vector_store")
        /\ VectorWriteCalled
              => /\ CalledBefore("document_store", "add_document_chunks")
                 /\ CalledBefore("get_vector_store", "add_document_chunks")
        /\ (document_store[UploadId].chunks # << >> /\ env.lookup = "raise")
              => (UploadStatus = "error" /\ ChunksOf(index, UploadId) = {})
        /\ document_store[UploadId].chunks = << >>
              => (UploadStatus = "processed" /\ ChunksOf(index, UploadId) = {})

ChunksWrittenBesideZeroChunkDocument ==
    /\ Chunked
    /\ VectorWriteCalled
    /\ ChunksOf(index, UploadId) # {}
    /\ \E d \in DOMAIN document_store : document_store[d].total_chunks = 0

\* C15: after any sequence of ingestions, every document of the registry has
\* a total_chunks equal to the number of chunks stored in the vector index
\* under its id.
RegistryChunkCountMatchesIndex ==
    \A d \in DOMAIN document_store :
        document_store[d].total_chunks = Cardinality(ChunksOf(index, d))

\* every entry of the registry is still there, unchanged, after the step
RegistryEntriesKept ==
    \A d \in DOMAIN document_store :
        d \in DOMAIN document_store' /\ document_store'[d] = document_store[d]

\* every entry the step adds to the registry is the document of an upload
\* that succeeded
RegistryEntriesAddedBySuccess ==
    \A d \in DOMAIN document_store' \ DOMAIN document_store :
        /\ op' = "upload_document"
        /\ outcome'.kind = "return"
        /\ outcome'.value.status = "processed"
        /\ outcome'.value.document_id = d

\* C16: an entry is created in the registry only by a successful ingestion,
\* and once present it is never modified or removed by a later operation.
RegistryCreatedBySuccessThenImmutable ==
    [][RegistryEntriesAddedBySuccess /\ RegistryEntriesKept]_vars

\* the second half of C16 alone
RegistryImmutable == [][RegistryEntriesKept]_vars

\* the fields of a Document that describe the document as a whole
DocumentLevelFields ==
    {"document_id", "filename", "file_type", "file_path", "status",
     "total_chunks", "total_words", "total_characters"}

\* C17: once the chunks of a document are written to the vector index the
\* registry entry of the document holds document-level metadata only: no
\* copy of the chunk texts stays with the orchestrator.
RegistryHoldsNoChunkTexts ==
    \A d \in DOMAIN document_store :
        ChunksOf(index, d) # {} =>
            DOMAIN document_store[d] \subseteq DocumentLevelFields

\* C18: every ingestion gets a fresh identifier, different from that of
\* every earlier ingestion (also of the same filename and bytes), so a
\* registry insert adds an entry under a new key, overwrites nothing, and
\* the registry grows by exactly one entry per ingestion that reaches
\* registration.
FreshIdentifierPerIngestion ==
    [][op' = "upload_document" =>
          /\ \E f \in upload_dir' \ upload_dir : \A g \in upload_dir : g[1] # f[1]
          /\ "document_store" \in Range(calls') =>
                /\ RegistryEntriesKept
                /\ Cardinality(DOMAIN document_store')
                      = Cardinality(DOMAIN document_store) + 1
                /\ \E d \in DOMAIN document_store' \ DOMAIN document_store :
                      /\ document_store'[d].document_id = d
                      /\ document_store'[d].file_path \in upload_dir' \ upload_dir
          /\ "document_store" \notin Range(calls') =>
                document_store' = document_store]_vars

SameFileRegisteredTwice ==
    /\ Upload
    /\ Registered
    /\ \E d \in DOMAIN document_store :
          /\ d # UploadId
          /\ document_store[d].filename = document_store[UploadId].filename
          /\ document_store[d].full_text = document_store[UploadId].full_text
          /\ document_store[d].full_text # << >>

\* the upload the step handles does not bring its document into the registry
UploadStepWithoutRegistration ==
    /\ op' = "upload_document"
    /\ next_id \notin DOMAIN document_store'

\* C25 as stated: an ingestion that fails before its document reaches the
\* registry has no observable side effect: the registry, the vector index and
\* the upload working area are as they were before the request.
FailedIngestionChangesNothing ==
    [][UploadStepWithoutRegistration =>
          /\ document_store' = document_store
          /\ index' = index
          /\ upload_dir' = upload_dir]_vars

\* C25, amended: an ingestion that fails before its document reaches the
\* registry leaves the registry and the vector index as they were before the
\* request; of the upload working area it changes one thing, the file it
\* saved there under its fresh identifier, which stays.
FailedIngestionLeavesOnlyTheSavedFile ==
    [][UploadStepWithoutRegistration =>
          /\ outcome'.value.status = "error"
          /\ document_store' = document_store
          /\ index' = index
          /\ << next_id, Suffix(request'.filename) >> \notin upload_dir
          /\ upload_dir'
                = upload_dir \cup { << next_id, Suffix(request'.filename) >> }]_vars

UnreadablePdfLeftInUploadDirectory ==
    /\ Upload
    /\ EndsInPdf(request.filename)
    /\ ~request.file_content.readable
    /\ UploadStatus = "error"
    /\ ~Registered
    /\ << UploadId, << ".", "p", "d", "f" >> >> \in upload_dir
    /\ document_store # << >>

\* C26: whenever upload_document returns status error the registry is
\* unchanged by that call: the document reported as failed is not listed by
\* list_documents and not found by get_document_info, also when the failure
\* occurs at the vector store write.
ErrorUploadLeavesRegistryUnchanged ==
    [][(/\ op' = "upload_document"
        /\ outcome'.kind = "return"
        /\ outcome'.value.status = "error") =>
          /\ document_store' = document_store
          /\ next_id \notin DOMAIN document_store']_vars

\* C27: in every reachable state every entry of the registry has status
\* processed and file type pdf, so list_documents never reports a document
\* of status error.
RegistryHoldsProcessedPdfsOnly ==
    /\ \A d \in DOMAIN document_store :
          /\ document_store[d].status = "processed"
          /\ document_store[d].file_type = "pdf"
    /\ op = "list_documents" =>
          /\ Len(outcome.value) = Cardinality(DOMAIN document_store)
          /\ \A k \in 1..Len(outcome.value) :
                /\ outcome.value[k].status = "processed"
                /\ outcome.value[k].file_type = "pdf"
                /\ outcome.value[k].document_id \in DOMAIN document_store

TwoDocumentsListedOneWithoutChunks ==
    /\ op = "list_documents"
    /\ Len(outcome.value) = 2
    /\ outcome.value[1].total_chunks = 0
    /\ outcome.value[2].total_chunks = 1
    /\ \A k \in 1..2 : outcome.value[k].status = "processed"

\* the operations of the query side
QueryOperations ==
    {"process_chat_message", "search_documents", "get_document_info",
     "get_document_chunks", "list_documents"}

\* C28: no operation of the query side (process_chat_message,
\* search_documents, get_document_info, get_document_chunks, list_documents)
\* modifies the registry or writes to the vector index, on any branch; only
\* upload_document changes them.
OnlyUploadChangesRegistryAndIndex ==
    [][/\ op' \in QueryOperations =>
             (document_store' = document_store /\ index' = index)
       /\ (document_store' # document_store \/ index' # index) =>
             op' = "upload_document"]_vars

InfoFoundThroughVectorStoreFallback ==
    /\ op = "get_document_info"
    /\ document_store = << >>
    /\ index = PersistedIndex
    /\ calls = << "get_vector_store", "get_document_chunks" >>
    /\ DOMAIN outcome.value # {}
    /\ outcome.value.total_chunks = 1

-----------------------------------------------------------------------------
(* Properties of the chunker *)

\* chunk_text has just returned
ChunkDone == op = "chunk_text"

\* t is the first chunk followed by what is left of every later chunk once a
\* leading part of it (the part it shares with its predecessor) is removed
RECURSIVE Rebuilds(_, _, _)
Rebuilds(t, chunks, first) ==
    IF chunks = << >> THEN t = << >>
    ELSE \E k \in (IF first THEN {0} ELSE 0..Len(Head(chunks))) :
            /\ Len(Head(chunks)) - k <= Len(t)
            /\ SubSeq(t, 1, Len(Head(chunks)) - k)
                  = SubSeq(Head(chunks), k + 1, Len(Head(chunks)))
            /\ Rebuilds(SubSeq(t, Len(Head(chunks)) - k + 1, Len(t)),
                        Tail(chunks), FALSE)

\* C19 as stated: for every non-empty text the chunks, each without the part
\* that overlaps its predecessor, concatenate to exactly the text.
ChunksRebuildTextExactly ==
    (ChunkDone /\ request.text # << >>) =>
        Rebuilds(request.text, outcome.value, TRUE)

\* the positions of the text that lie in a chunk
Covered(spans) ==
    { i \in 1..Len(request.text) :
        \E k \in 1..Len(spans) : spans[k][1] <= i /\ i <= spans[k][2] }

\* C19, amended: for every non-empty text the chunks are contiguous parts of
\* the text in text order (neither the starts nor the ends ever go back);
\* on the recursive path every character of the text that lies in no chunk is
\* whitespace (the splitter strips the chunks it merges), so the concatenation
\* without the overlaps is the text less some whitespace characters; on the
\* fallback path every character lies in a chunk and the concatenation
\* without the overlaps is exactly the text.
ChunksRebuildTextUpToStrippedWhitespace ==
    (ChunkDone /\ request.text # << >>) =>
        /\ Len(outcome.value) = Len(env.spans)
        /\ \A k \in 1..Len(env.spans) :
              /\ 1 <= env.spans[k][1]
              /\ env.spans[k][1] <= env.spans[k][2]
              /\ env.spans[k][2] <= Len(request.text)
              /\ outcome.value[k]
                    = SubSeq(request.text, env.spans[k][1], env.spans[k][2])
        /\ \A k \in 1..(Len(env.spans) - 1) :
              /\ env.spans[k][1] <= env.spans[k + 1][1]
              /\ env.spans[k][2] <= env.spans[k + 1][2]
        /\ \A i \in 1..Len(request.text) :
              i \notin Covered(env.spans) => request.text[i] \in Whitespace
        /\ env.splitter = "fail" =>
              /\ Covered(env.spans) = 1..Len(request.text)
              /\ Rebuilds(request.text, outcome.value, TRUE)

SpaceLostBetweenTwoChunks ==
    /\ ChunkDone
    /\ env.splitter = "ok"
    /\ request.text = << "a", "b", " ", "b", "a" >>
    /\ outcome.value = << << "a", "b" >>, << "b", "a" >> >>

\* C20: for every chunk size C and overlap O with 0 <= O < C and every text,
\* no chunk of chunk_text is longer than C characters, on the recursive path
\* and on the fallback path (with the separator "" at the end of the list no
\* run of characters is unsplittable).
NoChunkLongerThanChunkSize ==
    ChunkDone =>
        /\ 0 <= request.chunk_overlap
        /\ request.chunk_overlap < request.chunk_size
        /\ \A k \in 1..Len(outcome.value) :
              /\ Len(outcome.value[k]) <= request.chunk_size
              /\ Len(outcome.value[k]) >= 1

LongRunCutIntoFullChunks ==
    /\ ChunkDone
    /\ env.splitter = "ok"
    /\ request.chunk_size = 2
    /\ request.chunk_overlap = 1
    /\ request.text = << "a", "b", "a", "b", "a" >>
    /\ Len(outcome.value) > 2
    /\ \A k \in 1..Len(outcome.value) : Len(outcome.value[k]) = 2

\* a text no longer than the chunk size (of 2 or more) comes back from the
\* splitter as the one chunk chunk_text stands for
ShortTextIsOneStrippedChunk ==
    (/\ ChunkDone
     /\ env.splitter = "ok"
     /\ request.chunk_size >= 2
     /\ Len(request.text) <= request.chunk_size) =>
        outcome.value = chunk_text(request.text)

\* the window starts of the fallback, counted from 0: every i with
\* i * (C - O) < len(text)
WindowStarts ==
    { i \in 0..Len(request.text) :
        i * (request.chunk_size - request.chunk_overlap) < Len(request.text) }

\* text[a:b] of Python, for 0 <= a
Slice(text, a, b) == SubSeq(text, a + 1, Min(b, Len(text)))

\* C21: when the recursive splitting fails, chunk_text returns the fixed
\* windows of the text: chunk i (from 0) is text[i(C-O) : i(C-O)+C], for
\* every i with i(C-O) < len(text); consecutive full chunks share exactly O
\* characters and the windows cover every character of the text.
FallbackReturnsFixedWindows ==
    (ChunkDone /\ env.splitter = "fail") =>
        /\ calls = << "split_text", "fallback" >>
        /\ outcome.kind = "return"
        /\ Len(outcome.value) = Cardinality(WindowStarts)
        /\ \A i \in WindowStarts :
              outcome.value[i + 1]
                 = Slice(request.text,
                         i * (request.chunk_size - request.chunk_overlap),
                         i * (request.chunk_size - request.chunk_overlap)
                            + request.chunk_size)
        /\ \A k \in 1..(Len(outcome.value) - 1) :
              (/\ Len(outcome.value[k]) = request.chunk_size
               /\ Len(outcome.value[k + 1]) = request.chunk_size) =>
                 /\ env.spans[k][2] - env.spans[k + 1][1] + 1
                       = request.chunk_overlap
                 /\ SubSeq(outcome.value[k],
                           request.chunk_size - request.chunk_overlap + 1,
                           request.chunk_size)
                       = SubSeq(outcome.value[k + 1], 1, request.chunk_overlap)
        /\ Covered(env.spans) = 1..Len(request.text)

FallbackWindowsOverlapByOne ==
    /\ ChunkDone
    /\ env.splitter = "fail"
    /\ request.chunk_size = 3
    /\ request.chunk_overlap = 1
    /\ request.text = << "a", "b", " ", "b", "a" >>
    /\ outcome.value = << << "a", "b", " " >>, << " ", "b", "a" >>, << "a" >> >>

\* C22: for the empty text chunk_text returns the empty sequence of chunks
\* and raises no error, on the recursive path and on the fallback path.
EmptyTextGivesNoChunks ==
    (ChunkDone /\ request.text = << >>) =>
        /\ outcome.kind = "return"
        /\ outcome.value = << >>

EmptyTextOnFallbackPath ==
    /\ ChunkDone
    /\ request.text = << >>
    /\ env.splitter = "fail"
    /\ calls = << "split_text", "fallback" >>
    /\ outcome.value = << >>

-----------------------------------------------------------------------------
(* Properties of the HTTP endpoints *)

\* the fields of the metadata process_document returns
EntryFields ==
    {"total_chunks", "total_characters", "total_words", "chunks", "full_text",
     "document_id", "filename", "file_type", "file_path", "status"}

\* the registry holds the whole entry of the document d
FullyPresent(d) ==
    /\ d \in DOMAIN document_store
    /\ DOMAIN document_store[d] = EntryFields
    /\ document_store[d].document_id = d

\* the listing k of GET /documents shows one whole entry of the registry
ListsWholeEntry(listed) ==
    /\ DOMAIN listed
          = {"document_id", "filename", "file_type", "status", "total_chunks"}
    /\ FullyPresent(listed.document_id)
    /\ listed.filename = document_store[listed.document_id].filename
    /\ listed.file_type = document_store[listed.document_id].file_type
    /\ listed.status = document_store[listed.document_id].status
    /\ listed.total_chunks = document_store[listed.document_id].total_chunks

KnownDocument(document_id) ==
    \/ document_id \in DOMAIN document_store
    \/ \E i \in 1..Len(index) : index[i].document_id = document_id

\* C29: GET /documents/{document_id} answers 404 exactly when the id is in
\* neither the registry nor the vector store; for an id found in the registry
\* or found only through the vector-store fallback it returns the document's
\* info with a status, never a 500.
GetDocumentAnswers404OnlyForUnknownIds ==
    op = "get_document" =>
        /\ (outcome.kind = "HTTPException" /\ outcome.value.status_code = 404)
              <=> ~KnownDocument(request.document_id)
        /\ KnownDocument(request.document_id) =>
              /\ outcome.kind = "return"
              /\ "status" \in DOMAIN outcome.value
        /\ ~(outcome.kind = "HTTPException" /\ outcome.value.status_code = 500)

\* what the code does for an id found only through the fallback while the
\* vector store answers: the dict of the fallback has no "status", the
\* endpoint's doc_info["status"] raises KeyError and the answer is a 500
FallbackLookupAnswers500 ==
    (/\ op = "get_document"
     /\ request.document_id \notin DOMAIN document_store
     /\ env.lookup = "ok"
     /\ env.provider = "up"
     /\ KnownDocument(request.document_id)) =>
        outcome = [kind |-> "HTTPException",
                   value |-> [status_code |-> 500, detail |-> "KeyError"]]

\* the file is rejected by the name check or by the size check of the endpoint
Rejected(file) ==
    \/ ~EndsInPdf(file.filename)
    \/ file.file_content.size > MaxUploadBytes

\* a batch upload of 1 to 10 files has ended
BatchEnded == batch.pc = "done" /\ Len(batch.files) \in 1..10

\* what C30 says of a batch upload that has ended (the loop never ends at a
\* rejected file: it is past it, or it has not reached it)
BatchAsClaimed ==
    /\ \A k \in 1..Len(batch.files) :
          Rejected(batch.files[k]) =>
             /\ k \notin batch.passed
             /\ batch.position # k
    /\ IF \E k \in 1..Len(batch.responses) : batch.responses[k].status = "processed"
       THEN /\ batch.outcome.kind = "return"
            /\ batch.outcome.value = batch.responses
       ELSE /\ batch.outcome.kind = "HTTPException"
            /\ batch.outcome.value.status_code = 500

\* C30: for a batch upload of 1 to 10 files the files are processed
\* independently in order: a file rejected for its name or its size is never
\* passed to upload_document and does not stop later files; the endpoint
\* returns the list of per-file responses if at least one file ended with
\* status processed, and answers with an HTTP 500 error otherwise.
BatchUploadFilesIndependent == BatchEnded => BatchAsClaimed

\* the same, for the batches whose every file could be read from the request
BatchUploadFilesIndependentWhenAllRead ==
    (BatchEnded /\ \A k \in 1..Len(batch.files) : batch.files[k].read = "ok") =>
        /\ BatchAsClaimed
        /\ batch.position = Len(batch.files) + 1
        /\ batch.passed
              = { k \in 1..Len(batch.files) : ~Rejected(batch.files[k]) }
        /\ Len(batch.responses) = Cardinality(batch.passed)

====
